---- MODULE Spec2Model ----
(***************************************************************************)
(* A model of the research-reader container session core:                  *)
(*   src-tauri/src/commands.rs  (the session slot and its commands)        *)
(*   src-tauri/src/rr_file.rs   (open_rr, import_pdf, save_rr, cleanup)    *)
(*   src-tauri/src/database.rs  (metadata and annotation store)            *)
(*   src-tauri/src/models.rs    (records)                                  *)
(*                                                                         *)
(* Conventions.  Option<T> is a sequence: <<>> is None, <<x>> is Some(x).  *)
(* A string that the code takes apart (a file name, a title) is the        *)
(* sequence of its '.'-separated segments: "b.x.PDF" is <<"b","x","PDF">>. *)
(* All files live in one directory, so a path is its file name.            *)
(***************************************************************************)
EXTENDS Integers, Sequences, FiniteSets, TLC

(* ------------------------------ state --------------------------------- *)

VARIABLES
  files,     \* container path -> the file on disk
  dirs,      \* working-directory name -> the directory on disk
  session,   \* AppState.session: the slot behind the mutex
  pending,   \* per caller: the session open_file has built and not installed
  clock,     \* chrono::Utc::now
  nextId,    \* the next identifier uuid::Uuid::new_v4 hands out
  dirty,     \* history: the slot's session has edits committed since its last save
  last,      \* history: the last command run, its argument and its result
  faults     \* history: the failures inflicted so far

vars == << files, dirs, session, pending, clock, nextId, dirty, last, faults >>

(* ------------------------------ bounds -------------------------------- *)

\* Working directories that may exist at once (tempfile::tempdir names).
MaxDirs == 2
\* Largest value of the wall clock (chrono::Utc::now).
MaxClock == 1
\* I/O failures and crashes the environment inflicts in one run.
MaxFaults == 1
\* Annotation identifiers that uuid::Uuid::new_v4 may hand out.
MaxIds == 1

(* ------------------------------ values -------------------------------- *)

None == <<>>
Some(x) == <<x>>

\* The source PDF on disk, "paper.v2.PDF", and its bytes; "missing.pdf" does
\* not exist.
PaperPdf == << "paper", "v2", "PDF" >>
PdfOnDisk(p) == IF p = PaperPdf THEN Some("P1") ELSE None

\* The container paths: "paper.v2.rr", and "missing.rr", which never exists.
PaperRr == << "paper", "v2", "rr" >>
MissingRr == << "missing", "rr" >>
RrPaths == { PaperRr, MissingRr }

\* Paths a caller may pass to open_file; ".pdf" is a name without extension.
OpenPaths ==
  RrPaths \cup { PaperPdf, << "missing", "pdf" >>, << "notes", "txt" >>, << "", "pdf" >> }

DirIds == 1..MaxDirs
\* Concurrent callers of the command layer.
Threads == { "t1", "t2" }

MetaKeys == { "title", "last_page" }
MetaValues == { <<"7">> }
Pages == { 1, 2 }
CreatePages == { 1 }

(* ---------------------- std::path::Path helpers ------------------------ *)

\* str::to_lowercase on one segment of the file names in play.
to_lowercase(s) ==
  CASE s = "PDF" -> "pdf"
    [] s = "RR" -> "rr"
    [] OTHER -> s

\* A name of one segment has no '.'; a name <<"", x>> is ".x", which Rust
\* treats as a stem without extension.
HasExtension(p) == Len(p) >= 2 /\ ~(Len(p) = 2 /\ p[1] = "")

\* Path::extension, then unwrap_or("") and to_lowercase  (commands.rs:19-23)
extension(p) == IF HasExtension(p) THEN to_lowercase(p[Len(p)]) ELSE ""

\* Path::file_stem
file_stem(p) == IF HasExtension(p) THEN SubSeq(p, 1, Len(p) - 1) ELSE p

\* Path::with_extension
with_extension(p, ext) == Append(file_stem(p), ext)

(* ------------------------ the backing store --------------------------- *)

\* The tables after init_db on a new file: no metadata, no annotations.
\* The metadata table is the sequence of its (key, value) rows, the
\* annotations table the sequence of its rows in rowid order.
EmptyContent == [ meta |-> <<>>, rows |-> <<>> ]

\* A store file: the main file's content, the journal mode recorded in its
\* header, and the write-ahead log beside it (None when there is none).
NewDbFile == [ wal_mode |-> FALSE, main |-> EmptyContent, wal |-> None ]

\* What a query on the connection sees: the log's content wins.
DbRead(db) == IF db.wal # None THEN db.wal[1] ELSE db.main

\* A committed statement: into the log in WAL mode, else into the main file.
DbCommit(db, c) ==
  IF db.wal_mode THEN [ db EXCEPT !.wal = Some(c) ] ELSE [ db EXCEPT !.main = c ]

\* A checkpoint that merges nothing.
wal_checkpoint_skipped(db) == db

\* PRAGMA wal_checkpoint(TRUNCATE)
wal_checkpoint(db) ==
  IF db.wal # None THEN [ db EXCEPT !.main = db.wal[1], !.wal = None ] ELSE db

\* fs::read of data.sqlite: the main file only, never the log.
DbFileBytes(db) == [ wal_mode |-> db.wal_mode, main |-> db.main, wal |-> None ]

\* The metadata rows with the given key, in order.
MetaRows(m, key) == SelectSeq(m, LAMBDA e : e.key = key)

\* database::get_metadata: the first row the SELECT yields, if any.
get_metadata(db, key) ==
  LET hits == MetaRows(DbRead(db).meta, key)
  IN  IF hits = <<>> THEN None ELSE Some(hits[1].value)

\* An INSERT that leaves the row of the same key in place.
set_metadata_insert(db, key, value) ==
  LET c == DbRead(db)
  IN  DbCommit(db, [ c EXCEPT !.meta = Append(@, [ key |-> key, value |-> value ]) ])

\* database::set_metadata: INSERT OR REPLACE deletes the row that conflicts
\* on the primary key, then inserts.
set_metadata(db, key, value) ==
  LET c == DbRead(db)
      kept == SelectSeq(c.meta, LAMBDA e : e.key # key)
  IN  DbCommit(db, [ c EXCEPT !.meta = Append(kept, [ key |-> key, value |-> value ]) ])

\* enum AnnotationType
AnnotationTypes == { "Highlight", "Note", "Bookmark" }

\* AnnotationType::as_str
as_str(t) ==
  CASE t = "Highlight" -> "highlight"
    [] t = "Note" -> "note"
    [] t = "Bookmark" -> "bookmark"

\* A decoder that takes every unknown tag for a note.
from_str_lenient(tag) ==
  CASE tag = "highlight" -> [ ok |-> TRUE, value |-> "Highlight" ]
    [] tag = "bookmark" -> [ ok |-> TRUE, value |-> "Bookmark" ]
    [] OTHER -> [ ok |-> TRUE, value |-> "Note" ]

\* AnnotationType::from_str
from_str(tag) ==
  CASE tag = "highlight" -> [ ok |-> TRUE, value |-> "Highlight" ]
    [] tag = "note" -> [ ok |-> TRUE, value |-> "Note" ]
    [] tag = "bookmark" -> [ ok |-> TRUE, value |-> "Bookmark" ]
    [] OTHER -> [ ok |-> FALSE, value |-> "Unknown annotation type" ]

\* serde_json::to_string of a PositionData: its JSON text.
to_string(pd) == << "json", pd >>

\* serde_json::from_str::<PositionData>(..).ok(): the value when the text
\* is the JSON of one, None when it does not parse.
from_str_ok(text) ==
  IF Len(text) = 2 /\ text[1] = "json" THEN Some(text[2]) ELSE None

\* Option::map(to_string) on the input, Option::and_then(from_str.ok()) on
\* the stored column.
position_data_json(o) == IF o = None THEN None ELSE Some(to_string(o[1]))
position_data_of(col) == IF col = None THEN None ELSE from_str_ok(col[1])

\* database::create_annotation: the INSERT, with the id and timestamp drawn
\* by the caller of this operator.
create_annotation(db, id, now, input) ==
  LET c == DbRead(db)
      row == [ id |-> id,
               type |-> as_str(input.type),
               page_number |-> input.page_number,
               color |-> input.color,
               content |-> input.content,
               position_data |-> position_data_json(input.position_data),
               created_at |-> now,
               updated_at |-> now ]
  IN  DbCommit(db, [ c EXCEPT !.rows = Append(@, row) ])

\* The Annotation that database::create_annotation returns
\* (database.rs:130-139): built from the input, not read back.
Annotation(id, now, input) ==
  [ id |-> id,
    type |-> input.type,
    page_number |-> input.page_number,
    color |-> input.color,
    content |-> input.content,
    position_data |-> input.position_data,
    created_at |-> now,
    updated_at |-> now ]

COALESCE(new, old) == IF new # None THEN new ELSE old

RowIds(db) == { DbRead(db).rows[i].id : i \in 1..Len(DbRead(db).rows) }

\* database::update_annotation: the UPDATE ... WHERE id = ?5
update_annotation(db, now, input) ==
  LET c == DbRead(db)
      upd(r) == IF r.id = input.id
                THEN [ r EXCEPT !.color = COALESCE(input.color, @),
                                !.content = COALESCE(input.content, @),
                                !.position_data =
                                    COALESCE(position_data_json(input.position_data), @),
                                !.updated_at = now ]
                ELSE r
  IN  IF input.id \in RowIds(db)
      THEN DbCommit(db, [ c EXCEPT !.rows = [ i \in 1..Len(@) |-> upd(@[i]) ] ])
      ELSE db

RECURSIVE SelectSeq2(_, _)
\* The rows of s whose id is not the given one, in order.
SelectSeq2(s, id) ==
  IF s = <<>> THEN <<>>
  ELSE IF Head(s).id = id THEN SelectSeq2(Tail(s), id)
       ELSE <<Head(s)>> \o SelectSeq2(Tail(s), id)

\* database::delete_annotation: DELETE ... WHERE id = ?1
delete_annotation(db, id) ==
  LET c == DbRead(db)
  IN  IF id \in RowIds(db)
      THEN DbCommit(db, [ c EXCEPT !.rows = SelectSeq2(@, id) ])
      ELSE db

\* Sort key of ORDER BY page_number ASC, created_at ASC.
RowBefore(a, b) ==
  \/ a.page_number < b.page_number
  \/ a.page_number = b.page_number /\ a.created_at < b.created_at

RECURSIVE InsertSorted(_, _)
\* r put behind every row that is not after it: rows reach the sorter in
\* rowid order and it keeps rows of equal key in the order they arrive.
InsertSorted(s, r) ==
  IF s = <<>> THEN <<r>>
  ELSE IF RowBefore(r, Head(s)) THEN <<r>> \o s
       ELSE <<Head(s)>> \o InsertSorted(Tail(s), r)

RECURSIVE SortRows(_)
SortRows(s) ==
  IF s = <<>> THEN <<>>
  ELSE InsertSorted(SortRows(SubSeq(s, 1, Len(s) - 1)), s[Len(s)])

\* The loop body of database::get_annotations  (database.rs:82-98): the
\* Annotation a row decodes to, or the error of its type tag.
decode(row) ==
  LET t == from_str(row.type)
  IN  IF t.ok
      THEN [ ok |-> TRUE, err |-> "",
             value |-> [ row EXCEPT !.type = t.value,
                                    !.position_data = position_data_of(@) ] ]
      ELSE [ ok |-> FALSE, err |-> t.value, value |-> row ]

\* A WHERE clause that lets every row through.
RowsOfAnyPage(s, page) == s

RECURSIVE RowsOfPage(_, _)
\* WHERE page_number = ?1
RowsOfPage(s, page) ==
  IF s = <<>> THEN <<>>
  ELSE IF Head(s).page_number = page THEN <<Head(s)>> \o RowsOfPage(Tail(s), page)
       ELSE RowsOfPage(Tail(s), page)

\* database::get_annotations; page is an Option.  The decoded rows in the
\* order of the SELECT, or the error of the first row that does not decode.
get_annotations(db, page) ==
  LET o == IF page = None THEN SortRows(DbRead(db).rows)
           ELSE SortRows(RowsOfPage(DbRead(db).rows, page[1]))
      bad == { i \in 1..Len(o) : ~decode(o[i]).ok }
  IN  IF bad = {}
      THEN [ ok |-> TRUE, err |-> "", rows |-> [ i \in 1..Len(o) |-> decode(o[i]).value ] ]
      ELSE [ ok |-> FALSE, err |-> "Failed to get annotations", rows |-> <<>> ]

(* ------------------------- files on disk ------------------------------ *)

\* A container path with nothing at it.
NoFile == [ exists |-> FALSE ]

\* A working-directory name with no directory behind it.
NoDir == [ exists |-> FALSE ]

\* A directory that no session refers to any more (its creator failed, or
\* its removal did): no command reads it again, so only its presence is kept.
OrphanDir == [ exists |-> TRUE, orphan |-> TRUE ]
Leak(ds, wd) == [ ds EXCEPT ![wd] = OrphanDir ]

\* A freshly created temp directory.
EmptyDir == [ exists |-> TRUE, manifest |-> None, pdf |-> None, db |-> None ]

\* The session slot's None.
NoSession == [ open |-> FALSE ]

\* struct RrSession; the db connection is the one on data.sqlite in work_dir.
RrSession(rr_path, work_dir) ==
  [ open |-> TRUE, rr_path |-> rr_path, work_dir |-> work_dir ]

\* A zip entry: its compression method and the bytes it decompresses to.
Entry(method, data) == [ method |-> method, data |-> data ]

\* The file right after fs::File::create: truncated, no entry, no central
\* directory.
TruncatedFile ==
  [ exists |-> TRUE, valid |-> FALSE, manifest |-> None, pdf |-> None, db |-> None ]

\* impl Default for RrManifest, serialized.
RrManifest(now) ==
  [ version |-> "1.0.0", format |-> "research-reader", created_at |-> now ]

\* Result records of the fallible operations.
Result(ok, err, fs, ds, sess) ==
  [ ok |-> ok, err |-> err, files |-> fs, dirs |-> ds, sess |-> sess ]

\* rr_file::save_rr.  fail names the step whose I/O fails ("none": no
\* failure); a step that is skipped because its file is absent cannot fail.
\* finalized says whether the ZipWriter dropped on an early return manages
\* to write the central directory of what it holds.
pack(fs, ds, s, fail, finalized) ==
  LET d == ds[s.work_dir]
      hasManifest == d.exists /\ d.manifest # None
      hasPdf == d.exists /\ d.pdf # None
      hasDb == d.exists /\ d.db # None
      abandon(z) == [ fs EXCEPT ![s.rr_path] = [ z EXCEPT !.valid = finalized ] ]
      z1 == IF hasManifest
            THEN [ TruncatedFile EXCEPT !.manifest = Some(Entry("Deflated", d.manifest[1])) ]
            ELSE TruncatedFile
      z2 == IF hasPdf
            THEN [ z1 EXCEPT !.pdf = Some(Entry("Stored", d.pdf[1])) ]
            ELSE z1
      ds1 == IF hasDb
             THEN [ ds EXCEPT ![s.work_dir].db = Some(wal_checkpoint(d.db[1])) ]
             ELSE ds
      z3 == IF hasDb
            THEN [ z2 EXCEPT !.db = Some(Entry("Deflated", DbFileBytes(ds1[s.work_dir].db[1]))) ]
            ELSE z2
  IN  IF fail = "create" THEN Result(FALSE, "Failed to create .rr file", fs, ds, s)
      ELSE IF hasManifest /\ fail = "manifest"
      THEN Result(FALSE, "Failed to read manifest", abandon(TruncatedFile), ds, s)
      ELSE IF hasPdf /\ fail = "pdf"
      THEN Result(FALSE, "Failed to read PDF", abandon(z1), ds, s)
      ELSE IF hasDb /\ fail = "checkpoint"
      THEN Result(FALSE, "Failed to checkpoint WAL", abandon(z2), ds, s)
      ELSE IF hasDb /\ fail = "db"
      THEN Result(FALSE, "Failed to read database", abandon(z2), ds1, s)
      ELSE IF fail = "finish"
      THEN Result(FALSE, "Failed to finalize archive",
                  [ fs EXCEPT ![s.rr_path] = z3 ], ds1, s)
      ELSE Result(TRUE, "", [ fs EXCEPT ![s.rr_path] = [ z3 EXCEPT !.valid = TRUE ] ],
                  ds1, s)

\* A save that writes a manifest of its own, stamped with the time of the
\* save, instead of the one in the working directory.
save_rr_restamped(fs, ds, s, fail, finalized) ==
  LET r == pack(fs, ds, s, fail, finalized)
  IN  IF r.ok
      THEN [ r EXCEPT !.files[s.rr_path].manifest = Some(Entry("Deflated", RrManifest(clock))) ]
      ELSE r

save_rr(fs, ds, s, fail, finalized) == pack(fs, ds, s, fail, finalized)

\* A cleanup that leaves the directory where it is.
cleanup_session_noop(ds, s, rm_ok) == ds

\* rr_file::cleanup_session: best-effort remove_dir_all, its result dropped.
cleanup_session(ds, s, rm_ok) ==
  IF rm_ok THEN [ ds EXCEPT ![s.work_dir] = NoDir ] ELSE Leak(ds, s.work_dir)

\* A temp directory under a fixed name, whether or not it is taken.
tempdir_fixed(ds) == 1

\* tempfile::tempdir().keep(): a name no existing directory has.
FreeDirs(ds) == { d \in DirIds : ~ds[d].exists }
tempdir(ds) == CHOOSE d \in FreeDirs(ds) : \A e \in FreeDirs(ds) : d <= e

\* The bytes an entry extracts to.
Extract(e) == IF e = None THEN None ELSE Some(e[1].data)

\* rr_file::open_rr
open_rr(fs, ds, rr_path, fail) ==
  LET wd == tempdir(ds)
      f == fs[rr_path]
      ds1 == [ ds EXCEPT ![wd] = [ exists |-> TRUE,
                                   manifest |-> Extract(f.manifest),
                                   pdf |-> Extract(f.pdf),
                                   db |-> Extract(f.db) ] ]
      \* Connection::open creates data.sqlite when the archive had none.
      ds2 == IF ds1[wd].db = None THEN [ ds1 EXCEPT ![wd].db = Some(NewDbFile) ] ELSE ds1
  IN  IF fail = "tempdir"
      THEN Result(FALSE, "Failed to create temp dir", fs, ds, NoSession)
      ELSE IF ~f.exists
      THEN Result(FALSE, "Failed to open .rr file", fs, Leak(ds, wd), NoSession)
      ELSE IF ~f.valid
      THEN Result(FALSE, "Failed to read .rr archive", fs, Leak(ds, wd), NoSession)
      ELSE IF fail = "extract"
      THEN Result(FALSE, "Failed to extract file", fs, Leak(ds, wd), NoSession)
      ELSE IF fail = "dbopen"
      THEN Result(FALSE, "Failed to open database", fs, Leak(ds, wd), NoSession)
      ELSE IF fail = "initdb"
      THEN Result(FALSE, "Failed to init database", fs, Leak(ds, wd), NoSession)
      ELSE Result(TRUE, "", fs, ds2, RrSession(rr_path, wd))

\* A title seeded from the whole file name, extension included.
seed_title_file_name(db, pdf_path) == set_metadata(db, "title", pdf_path)

\* import_pdf's seeding of the title from the file stem  (rr_file.rs:101-105);
\* open_file's path is a String, so the stem is always valid UTF-8.
seed_title(db, pdf_path) == set_metadata(db, "title", file_stem(pdf_path))

\* rr_file::import_pdf with output_path = None
import_pdf(fs, ds, pdf_path, now, fail, finalized) ==
  LET rr_path == with_extension(pdf_path, "rr")
      wd == tempdir(ds)
      ds0 == [ ds EXCEPT ![wd] = EmptyDir ]
      ds1 == [ ds0 EXCEPT ![wd].pdf = PdfOnDisk(pdf_path) ]
      ds2 == [ ds1 EXCEPT ![wd].manifest = Some(RrManifest(now)) ]
      ds3 == [ ds2 EXCEPT ![wd].db = Some(NewDbFile) ]
      ds4 == [ ds3 EXCEPT ![wd].db = Some(seed_title(NewDbFile, pdf_path)) ]
      new == RrSession(rr_path, wd)
      saved == save_rr(fs, ds4, new, fail, finalized)
  IN  IF fail = "tempdir"
      THEN Result(FALSE, "Failed to create temp dir", fs, ds, NoSession)
      ELSE IF PdfOnDisk(pdf_path) = None \/ fail = "copy"
      THEN Result(FALSE, "Failed to copy PDF", fs, Leak(ds, wd), NoSession)
      ELSE IF fail = "write_manifest"
      THEN Result(FALSE, "Failed to write manifest", fs, Leak(ds, wd), NoSession)
      ELSE IF fail = "dbopen"
      THEN Result(FALSE, "Failed to create database", fs, Leak(ds, wd), NoSession)
      ELSE IF fail = "initdb"
      THEN Result(FALSE, "Failed to init database", fs, Leak(ds, wd), NoSession)
      ELSE IF fail = "title"
      THEN Result(FALSE, "Failed to set title", fs, Leak(ds, wd), NoSession)
      ELSE IF ~saved.ok
      THEN Result(FALSE, saved.err, saved.files, Leak(ds, wd), NoSession)
      ELSE Result(TRUE, "", saved.files, saved.dirs, new)

(* ----------------------------- commands ------------------------------- *)

\* The steps at which an I/O failure may be injected into a command.
SaveFails == { "none", "create", "manifest", "pdf", "checkpoint", "db", "finish" }
OpenFails ==
  SaveFails \cup { "tempdir", "extract", "copy", "write_manifest", "dbopen",
                   "initdb", "title", "meta" }

\* u32::from_str on the metadata values in play.
parse_u32(v) == IF v = <<"7">> THEN Some(7) ELSE None
and_then_parse(o) == IF o = None THEN None ELSE parse_u32(o[1])

\* struct DocumentInfo as open_file fills it  (commands.rs:31-45)
DocumentInfo(ds, s) ==
  LET db == ds[s.work_dir].db[1]
  IN  [ pdf_path |-> << s.work_dir, "document.pdf" >>,
        rr_path |-> s.rr_path,
        title |-> get_metadata(db, "title"),
        page_count |-> None,
        last_page |-> and_then_parse(get_metadata(db, "last_page")) ]

\* commands::open_file up to the lock  (commands.rs:18-45): dispatch on the
\* extension, build the session, read the three metadata values.
open_file_build(fs, ds, path, now, fail, finalized) ==
  LET ext == extension(path)
      r == IF ext = "rr" THEN open_rr(fs, ds, path, fail)
           ELSE import_pdf(fs, ds, path, now, fail, finalized)
  IN  IF ext \notin { "rr", "pdf" }
      THEN Result(FALSE, "Unsupported file type", fs, ds, NoSession)
      ELSE IF r.ok /\ fail = "meta"
      THEN Result(FALSE, "Failed to read title", r.files, Leak(r.dirs, r.sess.work_dir), NoSession)
      ELSE r

\* commands::open_file under the lock  (commands.rs:47-52): take the previous
\* session, clean it up, install the new one.
open_file_install(ds, prev, rm_ok) ==
  IF prev.open THEN cleanup_session(ds, prev, rm_ok) ELSE ds

NoPending == [ t \in Threads |-> NoSession ]

Record(op, arg, ok, err, ret) ==
  [ op |-> op, arg |-> arg, ok |-> ok, err |-> err, ret |-> ret ]

\* A container made elsewhere, whose store was left in WAL journal mode.
ForeignContent ==
  [ meta |-> << [ key |-> "title", value |-> <<"old">> ] >>, rows |-> <<>> ]
ForeignFile ==
  [ exists |-> TRUE, valid |-> TRUE,
    manifest |-> Some(Entry("Deflated", RrManifest(0))),
    pdf |-> Some(Entry("Stored", "P0")),
    db |-> Some(Entry("Deflated",
                      [ wal_mode |-> TRUE, main |-> ForeignContent, wal |-> None ])) ]

\* What may lie at paper.v2.rr when the process starts: nothing, or a
\* container.
InitialFiles == { NoFile, ForeignFile }

\* lib.rs: AppState { session: Mutex::new(None) }
Init ==
  /\ files \in { f \in [ RrPaths -> InitialFiles ] : f[MissingRr] = NoFile }
  /\ dirs = [ d \in DirIds |-> NoDir ]
  /\ session = NoSession
  /\ pending = NoPending
  /\ clock = 0
  /\ nextId = 1
  /\ dirty = FALSE
  /\ last = [ op |-> "init", arg |-> None, ok |-> TRUE, err |-> "", ret |-> None ]
  /\ faults = 0

\* No caller is between the two halves of open_file.
Quiet == pending = NoPending

NoFileOpen == "No file is open"

\* commands::open_file, run by a single caller from call to return.
OpenFile(path, fail, finalized, rm_ok) ==
  /\ Quiet
  /\ FreeDirs(dirs) # {}
  /\ LET r == open_file_build(files, dirs, path, clock, fail, finalized)
     IN  /\ files' = r.files
         /\ IF r.ok
            THEN /\ dirs' = open_file_install(r.dirs, session, rm_ok)
                 /\ session' = r.sess
                 /\ dirty' = FALSE
                 /\ last' = Record("open_file", Some(path), TRUE, "",
                                   Some(DocumentInfo(r.dirs, r.sess)))
            ELSE /\ dirs' = r.dirs
                 /\ last' = Record("open_file", Some(path), FALSE, r.err, None)
                 /\ UNCHANGED << session, dirty >>
  /\ UNCHANGED << pending, clock, nextId >>

\* A save_file that answers Ok when the slot is empty.
SaveFileUnguarded(fail, finalized) ==
  /\ IF ~session.open
     THEN /\ last' = [ op |-> "save_file", arg |-> None, ok |-> TRUE, err |-> "",
                       ret |-> None ]
          /\ UNCHANGED << files, dirs, dirty >>
     ELSE LET r == save_rr(files, dirs, session, fail, finalized)
          IN  /\ files' = r.files
              /\ dirs' = r.dirs
              /\ dirty' = (dirty /\ ~r.ok)
              /\ last' = [ op |-> "save_file", arg |-> None, ok |-> r.ok,
                           err |-> r.err, ret |-> None ]
  /\ UNCHANGED << session, pending, clock, nextId >>

\* commands::save_file
SaveFile(fail, finalized) ==
  /\ IF ~session.open
     THEN /\ last' = Record("save_file", None, FALSE, NoFileOpen, None)
          /\ UNCHANGED << files, dirs, dirty >>
     ELSE LET r == save_rr(files, dirs, session, fail, finalized)
          IN  /\ files' = r.files
              /\ dirs' = r.dirs
              /\ dirty' = (dirty /\ ~r.ok)
              /\ last' = Record("save_file", None, r.ok, r.err, None)
  /\ UNCHANGED << session, pending, clock, nextId >>

\* commands::close_file: take() empties the slot before save_rr is tried.
CloseFile(fail, finalized, rm_ok) ==
  /\ IF ~session.open
     THEN /\ last' = Record("close_file", None, TRUE, "", None)
          /\ UNCHANGED << files, dirs, session, dirty >>
     ELSE LET r == save_rr(files, dirs, session, fail, finalized)
          IN  /\ files' = r.files
              /\ dirs' = IF r.ok THEN cleanup_session(r.dirs, session, rm_ok)
                         ELSE Leak(r.dirs, session.work_dir)
              /\ session' = NoSession
              /\ dirty' = FALSE
              /\ last' = Record("close_file", None, r.ok, r.err, None)
  /\ UNCHANGED << pending, clock, nextId >>

\* The store of the slot's session.
SessionDb == dirs[session.work_dir].db[1]

\* commands::get_annotations
GetAnnotations(page) ==
  /\ IF ~session.open
     THEN last' = Record("get_annotations", page, FALSE, NoFileOpen, None)
     ELSE LET r == get_annotations(SessionDb, page)
          IN  last' = Record("get_annotations", page, r.ok, r.err, r.rows)
  /\ UNCHANGED << files, dirs, session, pending, clock, nextId, dirty >>

\* A store command that writes: the slot's store becomes db.
StoreWrite(db) ==
  /\ dirs' = [ dirs EXCEPT ![session.work_dir].db = Some(db) ]
  /\ dirty' = (dirty \/ DbRead(db) # DbRead(SessionDb))

CreateInputs ==
  [ type : { "Note" }, page_number : CreatePages, color : { None },
    content : { None }, position_data : { None } ]

\* commands::create_annotation
CreateAnnotation(input) ==
  /\ IF ~session.open
     THEN /\ last' = Record("create_annotation", None, FALSE, NoFileOpen, None)
          /\ UNCHANGED << dirs, dirty, nextId >>
     ELSE LET db == create_annotation(SessionDb, nextId, clock, input)
          IN  /\ StoreWrite(db)
              /\ nextId' = nextId + 1
              /\ last' = Record("create_annotation", None, TRUE, "",
                                Some(Annotation(nextId, clock, input)))
  /\ UNCHANGED << files, session, pending, clock >>

UpdateInputs ==
  [ id : 0..MaxIds, color : { Some("red") }, content : { None },
    position_data : { None } ]

\* commands::update_annotation
UpdateAnnotation(input) ==
  /\ IF ~session.open
     THEN /\ last' = Record("update_annotation", None, FALSE, NoFileOpen, None)
          /\ UNCHANGED << dirs, dirty >>
     ELSE /\ StoreWrite(update_annotation(SessionDb, clock, input))
          /\ last' = Record("update_annotation", Some(input), TRUE, "",
                            Some(input.id \in RowIds(SessionDb)))
  /\ UNCHANGED << files, session, pending, clock, nextId >>

\* commands::delete_annotation
DeleteAnnotation(id) ==
  /\ IF ~session.open
     THEN /\ last' = Record("delete_annotation", None, FALSE, NoFileOpen, None)
          /\ UNCHANGED << dirs, dirty >>
     ELSE /\ StoreWrite(delete_annotation(SessionDb, id))
          /\ last' = Record("delete_annotation", Some(id), TRUE, "",
                            Some(id \in RowIds(SessionDb)))
  /\ UNCHANGED << files, session, pending, clock, nextId >>

\* commands::set_document_metadata
SetDocumentMetadata(key, value) ==
  /\ IF ~session.open
     THEN /\ last' = Record("set_document_metadata", None, FALSE, NoFileOpen, None)
          /\ UNCHANGED << dirs, dirty >>
     ELSE /\ StoreWrite(set_metadata(SessionDb, key, value))
          /\ last' = Record("set_document_metadata",
                            Some([ key |-> key, value |-> value ]), TRUE, "", None)
  /\ UNCHANGED << files, session, pending, clock, nextId >>

\* commands::read_pdf_bytes
ReadPdfBytes ==
  /\ last' = IF ~session.open
             THEN Record("read_pdf_bytes", None, FALSE, NoFileOpen, None)
             ELSE IF dirs[session.work_dir].pdf = None
             THEN Record("read_pdf_bytes", None, FALSE, "Failed to read PDF", None)
             ELSE Record("read_pdf_bytes", None, TRUE, "", dirs[session.work_dir].pdf)
  /\ UNCHANGED << files, dirs, session, pending, clock, nextId, dirty >>

\* Time passes.  (The runs of the file commands let the clock only advance;
\* the runs of the store commands also set it back, see ClockSet.)
Tick ==
  /\ clock < MaxClock
  /\ clock' = clock + 1
  /\ UNCHANGED << files, dirs, session, pending, nextId, dirty, last, faults >>

\* The process dies, idle ("none") or inside save_rr after the step named:
\* the slot and every connection are gone, the disk stays as it was left.
CrashPoints == { "none", "manifest", "pdf", "checkpoint", "finish" }
Crash(point) ==
  /\ point # "none" => session.open /\ Quiet
  /\ files' = IF point = "none" THEN files
              ELSE save_rr(files, dirs, session, point, FALSE).files
  /\ dirs' = [ d \in DirIds |-> IF dirs[d].exists THEN OrphanDir ELSE NoDir ]
  /\ session' = NoSession
  /\ pending' = NoPending
  /\ dirty' = FALSE
  /\ last' = Record("crash", Some(point), FALSE, "", None)
  /\ UNCHANGED << clock, nextId >>

\* The commands that do not take part in the replacement of a session.
StoreCommand ==
  \/ \E page \in { None, Some(1) } : GetAnnotations(page)
  \/ \E input \in CreateInputs : nextId <= MaxIds /\ CreateAnnotation(input)
  \/ \E input \in UpdateInputs : UpdateAnnotation(input)
  \/ \E id \in 0..MaxIds : DeleteAnnotation(id)
  \/ \E key \in { "last_page" }, value \in MetaValues : SetDocumentMetadata(key, value)
  \/ ReadPdfBytes

\* The failures that can strike open_file on a path: those of the steps the
\* path's extension leads through.
OpenFailsOf(path) ==
  CASE extension(path) = "rr" -> { "none", "tempdir", "extract", "dbopen", "initdb", "meta" }
    [] extension(path) = "pdf" -> OpenFails \ { "extract" }
    [] OTHER -> { "none" }

\* Whether the dropped ZipWriter finalizes matters only when save_rr returns
\* early with the writer alive.
FinalizedOf(fail) ==
  IF fail \in { "manifest", "pdf", "checkpoint", "db" } THEN BOOLEAN ELSE { TRUE }

\* Whether remove_dir_all succeeds matters only when there is a directory
\* to remove.
RemovalOf(s) == IF s.open THEN BOOLEAN ELSE { TRUE }

\* The environment inflicts the failures named, within its budget.
Inflict(fail, rm_ok) ==
  LET n == (IF fail = "none" THEN 0 ELSE 1) + (IF rm_ok THEN 0 ELSE 1)
  IN  /\ faults + n <= MaxFaults
      /\ faults' = faults + n

\* The file commands, with every I/O failure the environment can inject.
FileCommand ==
  \/ \E path \in OpenPaths : \E fail \in OpenFailsOf(path) :
       \E finalized \in FinalizedOf(fail), rm_ok \in RemovalOf(session) :
         Inflict(fail, rm_ok) /\ OpenFile(path, fail, finalized, rm_ok)
  \/ \E fail \in SaveFails : \E finalized \in FinalizedOf(fail) :
       Inflict(fail, TRUE) /\ SaveFile(fail, finalized)
  \/ \E fail \in SaveFails : \E finalized \in FinalizedOf(fail), rm_ok \in RemovalOf(session) :
       Inflict(fail, rm_ok) /\ CloseFile(fail, finalized, rm_ok)

\* One caller at a time, every command run from call to return.
Next ==
  \/ FileCommand
  \/ StoreCommand /\ UNCHANGED faults
  \/ Tick
  \/ \E point \in CrashPoints : Inflict("crash", TRUE) /\ Crash(point)

Spec == Init /\ [][Next]_vars

(* ------------------------- concurrent callers -------------------------- *)

\* What a caller holds in the second half of open_file: the session it
\* built, the path it was given, the DocumentInfo it has already read, and
\* whether it holds the lock on the slot.
Built(s, path, info) ==
  [ open |-> TRUE, rr_path |-> s.rr_path, work_dir |-> s.work_dir,
    arg |-> path, info |-> info, locked |-> FALSE ]

\* A slot whose mutex any caller may take at any time.
LockIgnored == TRUE

\* state.session.lock(): no caller is inside the locked part of open_file.
LockFree ==
  \A t \in Threads :
    /\ ~(pending[t].open /\ pending[t].locked)
    /\ "saving" \notin DOMAIN pending[t]

\* commands::open_file, lines 18-45, run by caller t without the lock: the
\* new session comes to exist while the slot is untouched.
OpenFileBuild(t, path, fail, finalized) ==
  /\ pending[t] = NoSession
  /\ FreeDirs(dirs) # {}
  /\ LET r == open_file_build(files, dirs, path, clock, fail, finalized)
     IN  /\ files' = r.files
         /\ dirs' = r.dirs
         /\ IF r.ok
            THEN /\ pending' = [ pending EXCEPT
                                   ![t] = Built(r.sess, path, DocumentInfo(r.dirs, r.sess)) ]
                 /\ UNCHANGED last
            ELSE /\ last' = Record("open_file", Some(path), FALSE, r.err, None)
                 /\ UNCHANGED pending
  /\ UNCHANGED << session, clock, nextId, dirty >>

\* commands::open_file, lines 47-51, run by caller t: lock the slot, take
\* the previous session out of it and clean it up.
OpenFileTake(t, rm_ok) ==
  /\ pending[t].open
  /\ ~pending[t].locked
  /\ LockFree
  /\ dirs' = open_file_install(dirs, session, rm_ok)
  /\ session' = NoSession
  /\ pending' = [ pending EXCEPT ![t].locked = TRUE ]
  /\ dirty' = FALSE
  /\ UNCHANGED << files, clock, nextId, last >>

\* commands::open_file, lines 52-54, run by caller t: put the new session
\* into the slot and return, which releases the lock.
OpenFileInstall(t) ==
  /\ pending[t].open
  /\ pending[t].locked
  /\ session' = RrSession(pending[t].rr_path, pending[t].work_dir)
  /\ pending' = [ pending EXCEPT ![t] = NoSession ]
  /\ last' = Record("open_file", Some(pending[t].arg), TRUE, "", Some(pending[t].info))
  /\ UNCHANGED << files, dirs, clock, nextId, dirty >>

\* What a caller holds inside save_rr: nothing but the lock on the slot.
Saving == [ open |-> FALSE, saving |-> TRUE ]

\* commands::save_file on an Open session, up to fs::File::create
\* (rr_file.rs:121): caller t has the lock and the archive is truncated.
SaveFileBegin(t) ==
  /\ pending[t] = NoSession
  /\ LockFree
  /\ session.open
  /\ files' = [ files EXCEPT ![session.rr_path] = TruncatedFile ]
  /\ pending' = [ pending EXCEPT ![t] = Saving ]
  /\ UNCHANGED << dirs, session, clock, nextId, dirty, last >>

\* The rest of that save_file: the entries and the central directory are
\* written, and the return releases the lock.
SaveFileEnd(t) ==
  /\ pending[t] = Saving
  /\ LET r == save_rr(files, dirs, session, "none", TRUE)
     IN  /\ files' = r.files
         /\ dirs' = r.dirs
         /\ dirty' = FALSE
         /\ last' = Record("save_file", None, TRUE, "", None)
  /\ pending' = [ pending EXCEPT ![t] = NoSession ]
  /\ UNCHANGED << session, clock, nextId >>

\* Some caller is free to issue a command.
SomeCallerFree == \E t \in Threads : pending[t] = NoSession

\* Several callers, in an environment that inflicts no failure.  open_file
\* runs its first half without the lock and its second half under it; every
\* other command takes the lock in its first line and holds it to its
\* return, so it is one step that waits for the lock to be free.  A
\* save_file is also run in two steps, which shows the archive as it is on
\* disk while save_rr writes it.
NextConc ==
  \/ \E t \in Threads, path \in OpenPaths :
       OpenFileBuild(t, path, "none", TRUE) /\ UNCHANGED faults
  \/ \E t \in Threads : OpenFileTake(t, TRUE) /\ UNCHANGED faults
  \/ \E t \in Threads : OpenFileInstall(t) /\ UNCHANGED faults
  \/ SomeCallerFree /\ LockFree /\ SaveFile("none", TRUE) /\ UNCHANGED faults
  \/ \E t \in Threads : SaveFileBegin(t) /\ UNCHANGED faults
  \/ \E t \in Threads : SaveFileEnd(t) /\ UNCHANGED faults
  \/ SomeCallerFree /\ LockFree /\ CloseFile("none", TRUE, TRUE) /\ UNCHANGED faults
  \/ SomeCallerFree /\ LockFree /\ StoreCommand /\ UNCHANGED faults

SpecConc == Init /\ [][NextConc]_vars

(* --------------------------- the store alone --------------------------- *)

\* Annotation identifiers handed out in a run of the store commands.
MaxStoreIds == 2

\* Rows written by another build of the program, found in the store of a
\* container that open_rr extracted: init_db's CREATE TABLE IF NOT EXISTS
\* leaves an existing table and its rows as they are.
LegacyRow(tag, position) ==
  [ id |-> 0, type |-> tag, page_number |-> 1, color |-> None, content |-> None,
    position_data |-> position, created_at |-> 0, updated_at |-> 0 ]
UnknownTagRow == LegacyRow("sticky", None)
MalformedPositionRow == LegacyRow("note", Some(<< "{rects:" >>))
InitialRows == { <<>>, << UnknownTagRow >>, << MalformedPositionRow >> }

\* The inputs the front end sends to create, list and delete.
StoreCreateInputs ==
  [ type : { "Highlight" }, page_number : Pages, color : { None },
    content : { None }, position_data : { None, Some("PD1") } ]

\* A session is Open on directory 1, extracted from a container at
\* paper.v2.rr whose store holds the rows given.
StoreOpen(rows) ==
  LET db == [ wal_mode |-> FALSE, main |-> [ meta |-> <<>>, rows |-> rows ],
              wal |-> None ]
  IN  /\ dirs = [ d \in DirIds |->
                    IF d = 1
                    THEN [ exists |-> TRUE, manifest |-> Some(RrManifest(0)),
                           pdf |-> Some("P0"), db |-> Some(db) ]
                    ELSE NoDir ]
      /\ files = [ f \in RrPaths |->
                     IF f = PaperRr
                     THEN [ exists |-> TRUE, valid |-> TRUE,
                            manifest |-> Some(Entry("Deflated", RrManifest(0))),
                            pdf |-> Some(Entry("Stored", "P0")),
                            db |-> Some(Entry("Deflated", db)) ]
                     ELSE NoFile ]
      /\ session = RrSession(PaperRr, 1)
      /\ pending = NoPending
      /\ clock = 0
      /\ nextId = 1
      /\ dirty = FALSE
      /\ last = Record("open_file", Some(PaperRr), TRUE, "", None)
      /\ faults = 0

InitStore == \E rows \in InitialRows : StoreOpen(rows)

\* The wall clock that chrono::Utc::now reads is set, forwards or back.
ClockSet ==
  /\ \E t \in 0..MaxClock : t # clock /\ clock' = t
  /\ UNCHANGED << files, dirs, session, pending, nextId, dirty, last, faults >>

\* Create, list and delete on the Open session, and the clock.
NextStore ==
  \/ \E page \in { None } \cup { Some(p) : p \in Pages } :
       GetAnnotations(page) /\ UNCHANGED faults
  \/ \E input \in StoreCreateInputs :
       nextId <= MaxStoreIds /\ CreateAnnotation(input) /\ UNCHANGED faults
  \/ \E id \in 0..MaxStoreIds : DeleteAnnotation(id) /\ UNCHANGED faults
  \/ ClockSet

SpecStore == InitStore /\ [][NextStore]_vars

(* ------------------------------ updates -------------------------------- *)

\* The inputs the front end sends to update: each of the three fields
\* supplied or omitted, for an id that may or may not exist.
StoreUpdateInputs ==
  [ id : 1..MaxStoreIds, color : { None, Some("red") },
    content : { None, Some("text") }, position_data : { None, Some("PD2") } ]

\* The one annotation input of the runs that exercise update.
UpdateCreateInputs ==
  [ type : { "Note" }, page_number : { 1 }, color : { Some("blue") },
    content : { None }, position_data : { Some("PD1") } ]

InitUpdate == StoreOpen(<<>>)

\* Create and update on the Open session, and the clock.
NextUpdate ==
  \/ \E input \in UpdateCreateInputs :
       nextId <= MaxStoreIds /\ CreateAnnotation(input) /\ UNCHANGED faults
  \/ \E input \in StoreUpdateInputs : UpdateAnnotation(input) /\ UNCHANGED faults
  \/ ClockSet

SpecUpdate == InitUpdate /\ [][NextUpdate]_vars

(* ------------------------------ metadata ------------------------------- *)

\* The values the front end sets: page numbers as text, and a title.
StoreMetaValues == { <<"7">>, <<"8">> }

InitMeta == StoreOpen(<<>>)

\* Metadata is set on the Open session, saved, and read back by reopening
\* the container (open_file reads title, page_count and last_page).
NextMeta ==
  \/ \E key \in MetaKeys, value \in StoreMetaValues :
       SetDocumentMetadata(key, value) /\ UNCHANGED faults
  \/ SaveFile("none", TRUE) /\ UNCHANGED faults
  \/ OpenFile(PaperRr, "none", TRUE, TRUE) /\ UNCHANGED faults

SpecMeta == InitMeta /\ [][NextMeta]_vars

(* ----------------------------- properties ----------------------------- *)

\* The step is the command op: commands leave the clock alone and record
\* themselves in last; the other steps, Tick and ClockSet, move the clock.
Step(op) == clock' = clock /\ last'.op = op

\* The store content a reader finds in a container file, if it finds any.
StoreOfArchive(f) ==
  IF f.exists /\ f.valid /\ f.db # None THEN Some(f.db[1].data.main) ELSE None

\* The store content of the session in the slot, as its connection sees it.
SessionContent == DbRead(SessionDb)

\* C1: persist-before-replace.  Whenever a successful open_file replaces an
\* Open session that has edits committed since its last save, the replaced
\* session's archive on disk holds that session's store content afterwards.
C1_PersistBeforeReplace ==
  [][ (session.open /\ dirty /\ Step("open_file") /\ last'.ok)
      => StoreOfArchive(files'[session.rr_path]) = Some(SessionContent) ]_vars

\* C2: a failed persist never loses the session.  When save_file or
\* close_file on an Open session returns an error, the slot still holds the
\* same session, its working directory exists and its store reads the same.
C2_FailedPersistKeepsSession ==
  [][ (session.open /\ (Step("save_file") \/ Step("close_file")) /\ ~last'.ok)
      => /\ session' = session
         /\ dirs'[session.work_dir].exists
         /\ ~("orphan" \in DOMAIN dirs'[session.work_dir])
         /\ DbRead(dirs'[session.work_dir].db[1]) = SessionContent ]_vars

\* The complete archive of the slot's session: what save_rr writes when
\* nothing fails.
CompleteArchive == save_rr(files, dirs, session, "none", TRUE).files[session.rr_path]

\* C3: atomic overwrite.  Whatever happens to a save of the Open session
\* (success, failure at any step, a crash inside it), the file at the
\* session's archive path is afterwards the file that was there before or
\* the complete new archive.
C3_AtomicOverwrite ==
  [][ (session.open /\ (Step("save_file") \/ Step("close_file") \/ Step("crash")))
      => \/ files'[session.rr_path] = files[session.rr_path]
         \/ files'[session.rr_path] = CompleteArchive ]_vars

\* The commands that need an Open session.
GuardedOps ==
  { "save_file", "get_annotations", "create_annotation", "update_annotation",
    "delete_annotation", "set_document_metadata", "read_pdf_bytes" }

\* C5: closed-state guard.  In state Closed each of the seven guarded
\* commands returns the no-document-open error, leaves the slot empty and
\* touches no archive and no working directory.
C5_ClosedStateGuard ==
  [][ (~session.open /\ \E op \in GuardedOps : Step(op))
      => /\ ~last'.ok
         /\ last'.err = "No file is open"
         /\ ~session'.open
         /\ files' = files
         /\ dirs' = dirs ]_vars

\* C5 witness: the metadata setter has been refused in state Closed.
C5_Witness ==
  /\ ~session.open
  /\ last.op = "set_document_metadata"
  /\ ~last.ok
  /\ last.err = "No file is open"

\* C6 as stated: a close_file that succeeds on an Open session empties the
\* slot, leaves the session's edits in its archive and removes the working
\* directory; on an empty slot it succeeds and changes nothing.
C6_CloseAsStated ==
  [][ (Step("close_file") /\ last'.ok)
      => IF session.open
         THEN /\ ~session'.open
              /\ StoreOfArchive(files'[session.rr_path]) = Some(SessionContent)
              /\ ~dirs'[session.work_dir].exists
         ELSE UNCHANGED << files, dirs, session >> ]_vars

\* C6 amended: as C6, except that the working directory is removed unless
\* its removal fails: it is left behind only in a close during which the
\* environment inflicted a failure, which close_file does not report.
C6_CloseRemovesUnlessRemovalFails ==
  [][ (Step("close_file") /\ last'.ok)
      => IF session.open
         THEN /\ ~session'.open
              /\ StoreOfArchive(files'[session.rr_path]) = Some(SessionContent)
              /\ dirs'[session.work_dir].exists => faults' > faults
         ELSE UNCHANGED << files, dirs, session >> ]_vars

\* C6 witness: a close has succeeded, the slot is empty, no working
\* directory is left and the archive holds an annotation made in the session.
C6_Witness ==
  /\ last.op = "close_file"
  /\ last.ok
  /\ ~session.open
  /\ \A d \in DirIds : ~dirs[d].exists
  /\ StoreOfArchive(files[PaperRr]) # None
  /\ StoreOfArchive(files[PaperRr])[1].rows # <<>>

\* The session in the slot after the step, and its working directory.
NewDir == dirs'[session'.work_dir]

\* C7: import/open round trip.  When a successful import of a PDF is
\* followed by a successful open of the container it produced, the new
\* session's document.pdf holds the source PDF's bytes and its title is the
\* source's file name without its last extension.
C7_ImportOpenRoundTrip ==
  [][ ( /\ last.op = "open_file" /\ last.ok /\ extension(last.arg[1]) = "pdf"
        /\ session.open
        /\ Step("open_file") /\ last'.ok /\ last'.arg = Some(session.rr_path) )
      => LET src == last.arg[1]
             base == SubSeq(src, 1, Len(src) - 1)
         IN  /\ NewDir.pdf = PdfOnDisk(src)
             /\ get_metadata(NewDir.db[1], "title") = Some(base)
             /\ last'.ret[1].title = Some(base) ]_vars

\* C7 witness: the container just opened is one an import produced: it
\* holds the source PDF's bytes and the seeded title "paper.v2".
C7_Witness ==
  /\ last.op = "open_file"
  /\ last.ok
  /\ last.arg = Some(PaperRr)
  /\ session.open
  /\ dirs[session.work_dir].pdf = Some("P1")
  /\ get_metadata(SessionDb, "title") = Some(<< "paper", "v2" >>)

\* C8: save reflects every committed change.  When a successful save_file
\* is followed by a successful open of the archive saved, the new session's
\* store reads the same metadata entries and annotation records as the saved
\* session's store did.
C8_SaveReflectsCommits ==
  [][ ( /\ last.op = "save_file" /\ last.ok /\ session.open
        /\ Step("open_file") /\ last'.ok /\ last'.arg = Some(session.rr_path) )
      => DbRead(NewDir.db[1]) = SessionContent ]_vars

\* C8 witness: a container whose store is in WAL mode has been reopened and
\* holds an annotation and a last_page entry, both written by the program.
C8_Witness ==
  /\ last.op = "open_file"
  /\ last.ok
  /\ last.arg = Some(PaperRr)
  /\ session.open
  /\ SessionDb.wal_mode
  /\ SessionDb.wal = None
  /\ SessionContent.rows # <<>>
  /\ get_metadata(SessionDb, "last_page") # None

\* C9: idempotent save.  A successful save_file that follows a successful
\* save_file with no command between them leaves an archive with the same
\* entries, the same document.pdf and manifest bytes and the same store
\* content.
C9_IdempotentSave ==
  [][ ( /\ last.op = "save_file" /\ last.ok /\ session.open
        /\ Step("save_file") /\ last'.ok )
      => LET old == files[session.rr_path]
             new == files'[session.rr_path]
         IN  /\ new.valid /\ old.valid
             /\ (new.manifest = None) = (old.manifest = None)
             /\ (new.pdf = None) = (old.pdf = None)
             /\ (new.db = None) = (old.db = None)
             /\ new.pdf = old.pdf
             /\ new.manifest = old.manifest
             /\ StoreOfArchive(new) = StoreOfArchive(old) ]_vars

\* C9 witness: a save has succeeded at a later time than the manifest in
\* the archive was created, on a session that holds an annotation.
C9_Witness ==
  /\ last.op = "save_file"
  /\ last.ok
  /\ session.open
  /\ clock > 0
  /\ files[session.rr_path].exists
  /\ files[session.rr_path].manifest # None
  /\ files[session.rr_path].manifest[1].data.created_at < clock
  /\ SessionContent.rows # <<>>

\* The errors of commands::open_file that import_pdf raises.
ImportErrors ==
  { "Failed to create temp dir", "Failed to copy PDF", "Failed to write manifest",
    "Failed to create database", "Failed to init database", "Failed to set title",
    "Failed to create .rr file", "Failed to read manifest", "Failed to read PDF",
    "Failed to checkpoint WAL", "Failed to read database",
    "Failed to finalize archive" }

\* C10: import is all-or-nothing.  When the import of a PDF fails at any
\* step, the destination path holds no file the import wrote: it is as it
\* was before the call.
C10_ImportAllOrNothing ==
  [][ ( /\ Step("open_file") /\ ~last'.ok
        /\ extension(last'.arg[1]) = "pdf"
        /\ last'.err \in ImportErrors )
      => LET dest == with_extension(last'.arg[1], "rr")
         IN  files'[dest] = files[dest] ]_vars

\* The sessions that exist: each a working directory with a live connection
\* to the store in it, whether in the slot or in a caller's hands.
LiveSessions ==
  { RrSession(x.rr_path, x.work_dir) :
      x \in { y \in { session } \cup { pending[t] : t \in Threads } : y.open } }

\* C4: at most one session exists process-wide in every reachable state,
\* also while open_file requests are in progress.
C4_AtMostOneSession == Cardinality(LiveSessions) <= 1

\* C11: listing order.  Every successful get_annotations returns its records
\* by page number ascending and, within a page, in the order in which they
\* were created (identifiers are handed out in creation order).
C11_ListingOrder ==
  [][ (Step("get_annotations") /\ last'.ok)
      => LET r == last'.ret
         IN  \A i, j \in 1..Len(r) :
               i < j => \/ r[i].page_number < r[j].page_number
                        \/ /\ r[i].page_number = r[j].page_number
                           /\ r[i].id < r[j].id ]_vars

\* The annotation rows of the slot's session before and after the step.
RowsBefore == DbRead(dirs[session.work_dir].db[1]).rows
RowsAfter == DbRead(dirs'[session.work_dir].db[1]).rows

\* C12: partial update.  update_annotation on an existing id replaces the
\* fields the input supplies, leaves the omitted ones, the id, type, page
\* number and created_at and every other record as they were, sets
\* updated_at no earlier than its previous value and than created_at, and
\* returns true; on an id that does not exist it returns false and changes
\* no record.
C12_PartialUpdate ==
  [][ (session.open /\ Step("update_annotation") /\ last'.ok)
      => LET input == last'.arg[1]
             hit == { i \in 1..Len(RowsBefore) : RowsBefore[i].id = input.id }
         IN  IF hit # {}
             THEN /\ last'.ret = Some(TRUE)
                  /\ Len(RowsAfter) = Len(RowsBefore)
                  /\ \A i \in 1..Len(RowsBefore) :
                       LET old == RowsBefore[i]
                           new == RowsAfter[i]
                       IN  IF i \in hit
                           THEN /\ new.color = IF input.color # None THEN input.color
                                               ELSE old.color
                                /\ new.content = IF input.content # None THEN input.content
                                                 ELSE old.content
                                /\ IF input.position_data # None
                                   THEN position_data_of(new.position_data)
                                          = input.position_data
                                   ELSE new.position_data = old.position_data
                                /\ new.id = old.id
                                /\ new.type = old.type
                                /\ new.page_number = old.page_number
                                /\ new.created_at = old.created_at
                                /\ new.updated_at >= old.updated_at
                                /\ new.updated_at >= new.created_at
                           ELSE new = old
             ELSE /\ last'.ret = Some(FALSE)
                  /\ RowsAfter = RowsBefore ]_vars

\* The records a set of rows decodes to.
Decoded(rows) == { decode(rows[i]).value : i \in 1..Len(rows) }
Range(q) == { q[i] : i \in 1..Len(q) }

\* C13: annotation store contents.  A create adds exactly the record it
\* returns, under a new id; a delete of an existing id returns true and
\* removes exactly that record, a delete of any other id returns false
\* without error and changes nothing; a successful listing returns exactly
\* the records in the store, or exactly those of the page asked for.
C13_StoreContents ==
  [][ /\ (session.open /\ Step("create_annotation") /\ last'.ok)
          => /\ last'.ret[1].id \notin { RowsBefore[i].id : i \in 1..Len(RowsBefore) }
             /\ Len(RowsAfter) = Len(RowsBefore) + 1
             /\ SubSeq(RowsAfter, 1, Len(RowsBefore)) = RowsBefore
             /\ decode(RowsAfter[Len(RowsAfter)]) =
                  [ ok |-> TRUE, err |-> "", value |-> last'.ret[1] ]
      /\ (session.open /\ Step("delete_annotation"))
          => LET id == last'.arg[1]
                 hit == { i \in 1..Len(RowsBefore) : RowsBefore[i].id = id }
             IN  /\ last'.ok
                 /\ last'.ret = Some(hit # {})
                 /\ Range(RowsAfter) = { r \in Range(RowsBefore) : r.id # id }
                 /\ Len(RowsAfter) = Len(RowsBefore) - Cardinality(hit)
                 /\ Cardinality(hit) <= 1
      /\ (session.open /\ Step("get_annotations") /\ last'.ok)
          => LET page == last'.arg
                 want == { a \in Decoded(RowsBefore) :
                             page # None => a.page_number = page[1] }
             IN  /\ Range(last'.ret) = want
                 /\ Len(last'.ret) = Cardinality(want) ]_vars

\* C13 witness: with records of page 1 and of page 2 in the store, the
\* listing of page 2 has returned the one record of that page.
C13_Witness ==
  /\ session.open
  /\ last.op = "get_annotations"
  /\ last.ok
  /\ last.arg = Some(2)
  /\ Len(last.ret) = 1
  /\ last.ret[1].page_number = 2
  /\ \E i \in 1..Len(DbRead(SessionDb).rows) : DbRead(SessionDb).rows[i].page_number = 1

\* The store of the slot's session after the step.
SessionDbAfter == dirs'[session.work_dir].db[1]

\* C14: metadata upsert.  After a set on key k, get_metadata(k) is the value
\* set; the value of every other key (absence, for a key never set) is as it
\* was; and no key has more than one entry.
C14_MetadataUpsert ==
  [][ (session.open /\ Step("set_document_metadata"))
      => LET set == last'.arg[1]
         IN  /\ last'.ok
             /\ get_metadata(SessionDbAfter, set.key) = Some(set.value)
             /\ \A k \in MetaKeys \ { set.key } :
                  get_metadata(SessionDbAfter, k) = get_metadata(SessionDb, k)
             /\ \A k \in MetaKeys :
                  Len(MetaRows(DbRead(SessionDbAfter).meta, k)) <= 1 ]_vars

\* C14 witness: last_page was saved as "7" and has then been set to "8",
\* which is what the store now answers, beside a title.
C14_Witness ==
  /\ session.open
  /\ last.op = "set_document_metadata"
  /\ last.arg = Some([ key |-> "last_page", value |-> <<"8">> ])
  /\ get_metadata(SessionDb, "last_page") = Some(<<"8">>)
  /\ get_metadata(SessionDb, "title") # None
  /\ files[session.rr_path].exists
  /\ files[session.rr_path].db # None
  /\ get_metadata(files[session.rr_path].db[1].data, "last_page") = Some(<<"7">>)

\* The rows a listing with the given page filter selects.
Selected(page) ==
  IF page = None THEN Range(RowsBefore)
  ELSE { r \in Range(RowsBefore) : r.page_number = page[1] }

\* C15: a malformed position payload is an error.  A listing over a row
\* whose position_data text is present and does not parse fails.
C15_MalformedPositionIsError ==
  [][ ( /\ session.open /\ Step("get_annotations")
        /\ \E r \in Selected(last'.arg) :
             r.position_data # None /\ from_str_ok(r.position_data[1]) = None )
      => ~last'.ok ]_vars

\* C16: an unknown type tag is a hard error.  A listing, filtered or not,
\* over a row whose type tag is none of highlight, note and bookmark fails
\* and returns no record.
C16_UnknownTagIsError ==
  [][ ( /\ session.open /\ Step("get_annotations")
        /\ \E r \in Selected(last'.arg) :
             r.type \notin { as_str(t) : t \in AnnotationTypes } )
      => /\ ~last'.ok
         /\ last'.err = "Failed to get annotations"
         /\ last'.ret = <<>> ]_vars

\* C16 witness: the listing of page 1 has failed on a store that holds a
\* row of page 1 tagged "sticky" beside a row the program created.
C16_Witness ==
  /\ session.open
  /\ last.op = "get_annotations"
  /\ last.arg = Some(1)
  /\ ~last.ok
  /\ last.err = "Failed to get annotations"
  /\ \E i \in 1..Len(DbRead(SessionDb).rows) : DbRead(SessionDb).rows[i].type = "sticky"
  /\ \E i \in 1..Len(DbRead(SessionDb).rows) : DbRead(SessionDb).rows[i].id > 0

\* C17: replacement order.  The prior session is persisted before the new
\* one is decoded: a successful open_file of the archive path of the Open
\* session, which has edits not yet saved, yields a session whose store
\* reads as the prior session's store did.
C17_ReplacementOrder ==
  [][ ( /\ session.open /\ dirty
        /\ Step("open_file") /\ last'.ok /\ last'.arg = Some(session.rr_path) )
      => /\ session'.open
         /\ DbRead(NewDir.db[1]) = SessionContent ]_vars

\* The commands that read or write the store of the session in the slot.
StoreOps ==
  { "get_annotations", "create_annotation", "update_annotation",
    "delete_annotation", "set_document_metadata", "read_pdf_bytes" }

\* The step is the store command op run by some caller: the two halves of
\* open_file change what a caller holds or record open_file in last.
StoreStep(op) == Step(op) /\ pending' = pending

\* C18: linear history under concurrent callers.  Every store operation
\* runs against the session that is in the slot before and after it, whose
\* working directory and store exist throughout, and never while a caller
\* of open_file is between taking the old session out of the slot and
\* putting the new one in.
C18_LinearHistory ==
  [][ (\E op \in StoreOps : StoreStep(op))
      => /\ session' = session
         /\ \A t \in Threads : ~(pending[t].open /\ pending[t].locked)
         /\ session.open
            => /\ last'.err # NoFileOpen
               /\ dirs[session.work_dir].exists
               /\ "db" \in DOMAIN dirs[session.work_dir]
               /\ dirs[session.work_dir].db # None
               /\ dirs'[session.work_dir].exists
               /\ "db" \in DOMAIN dirs'[session.work_dir] ]_vars

\* C18 witness: while one caller of open_file holds a session it has built
\* and not yet installed, another caller's create_annotation has run on the
\* session in the slot.
C18_Witness ==
  /\ session.open
  /\ \E t \in Threads : pending[t].open /\ ~pending[t].locked
  /\ last.op = "create_annotation"
  /\ last.ok
  /\ DbRead(SessionDb).rows # <<>>

\* C19: a failed open changes nothing.  When open_file returns an error, the
\* slot holds what it held, no caller holds a session of the failed attempt,
\* and the working directory and store of a session that was Open are as
\* they were.
C19_FailedOpenChangesNothing ==
  [][ (Step("open_file") /\ ~last'.ok)
      => /\ session' = session
         /\ pending' = pending
         /\ LiveSessions' = LiveSessions
         /\ session.open => dirs'[session.work_dir] = dirs[session.work_dir] ]_vars

\* C19 witness: an open_file has failed reading the title from the store it
\* had just opened, while a session holding an annotation is Open.
C19_Witness ==
  /\ last.op = "open_file"
  /\ ~last.ok
  /\ last.err = "Failed to read title"
  /\ session.open
  /\ DbRead(SessionDb).rows # <<>>
  /\ \E d \in DirIds : d # session.work_dir /\ dirs[d].exists

\* The working directories that exist on disk.
ExistingDirs == { d \in DirIds : dirs[d].exists }

\* C20: working-directory ownership.  With no operation in progress and no
\* failure inflicted by the environment (so every removal attempted has
\* succeeded), the working directories that exist are exactly that of the
\* session in the slot: none when the state is Closed.
C20_WorkDirOwnership ==
  (Quiet /\ faults = 0)
    => ExistingDirs = IF session.open THEN { session.work_dir } ELSE {}

\* The container path whose file an open_file of the given path reads
\* (an .rr) or writes (the destination of a .pdf's import).
ArchiveOf(path) ==
  IF extension(path) = "pdf" THEN with_extension(path, "rr") ELSE path

\* A caller is inside save_rr, between File::create and finish.
SaveInProgress == \E t \in Threads : pending[t] = Saving

\* The paths whose archive I/O an open_file performs in this step: that of
\* a caller who comes to hold a session it has built, and that of an
\* open_file that returns an error.
OpenedInStep ==
  { pending'[t].arg : t \in { u \in Threads : pending[u] = NoSession /\ pending'[u].open } }
  \cup (IF last' # last /\ last'.op = "open_file" /\ ~last'.ok
        THEN { last'.arg[1] } ELSE {})

\* C21: archive I/O is serialized by the session lock.  No open_file reads
\* or writes the archive of the Open session while a save_file is inside
\* save_rr writing it.
C21_ArchiveIoSerialized ==
  [][ (session.open /\ SaveInProgress)
      => \A path \in OpenedInStep : ArchiveOf(path) # session.rr_path ]_vars

\* C22: import does not destroy an existing container.  When open_file is
\* given a .pdf path whose destination already holds a container, the
\* annotations and metadata a reader finds in the file at the destination
\* afterwards are those it held before.
C22_ImportKeepsContainer ==
  [][ ( /\ Step("open_file")
        /\ extension(last'.arg[1]) = "pdf"
        /\ StoreOfArchive(files[ArchiveOf(last'.arg[1])]) # None )
      => StoreOfArchive(files'[ArchiveOf(last'.arg[1])])
           = StoreOfArchive(files[ArchiveOf(last'.arg[1])]) ]_vars

====
